---- MODULE Spec2Model ----
(***************************************************************************)
(* A model of the AVM2 interpreter state of core/src/avm2.rs: the          *)
(* broadcast registry and its pump, event dispatch, the operand stack and  *)
(* the ABC loader; and of core/src/avm2/globals.rs: the bootstrap of the   *)
(* player globals, the system tables and the built-in trace.               *)
(***************************************************************************)
EXTENDS Integers, Sequences, FiniteSets, TLC

(* ----------------------------------------------------------------------- *)
(* Bounds of the model.                                                    *)
(* ----------------------------------------------------------------------- *)
NumObjects == 2
MaxStack == 4
MaxScripts == 2
MaxLoads == 2
MaxInits == 2
MaxBoots == 2
MaxArgs == 2
MaxTraces == 2

(* ----------------------------------------------------------------------- *)
(* Program constants and input domains.                                    *)
(* ----------------------------------------------------------------------- *)
BROADCAST_WHITELIST == {"enterFrame", "exitFrame", "frameConstructed"}

\* Event names the host and the listeners use: the whitelist and one name
\* that is not a broadcast event.
EventNames == BROADCAST_WHITELIST \cup {"notAnEvent"}

\* The names objects are registered under in the model ("exitFrame" is
\* broadcast, and nothing listens to it).
RegisterNames == {"enterFrame", "frameConstructed", "notAnEvent"}

\* Objects are identified by their pointer (Object::ptr_eq).
Objects == 1..NumObjects

\* The classes the objects of the model are instances of.
Classes == {"Object", "DisplayObject", "Sprite"}

SuperClass(c) ==
    CASE c = "Sprite" -> "DisplayObject"
      [] c = "DisplayObject" -> "Object"
      [] OTHER -> "None"

ClassOf(o) ==
    CASE o % 3 = 1 -> "Sprite"
      [] o % 3 = 2 -> "DisplayObject"
      [] OTHER -> "Object"

\* object.is_of_type(on_type): the object's class is on_type or inherits it.
is_of_type(o, t) ==
    LET c == ClassOf(o) IN
    \/ c = t
    \/ SuperClass(c) = t
    \/ SuperClass(SuperClass(c)) = t

OnTypes == {"DisplayObject", "Sprite"}

\* The values pushed on the operand stack.
Values == {"Undefined", "Null", "True"}

VARIABLES
    broadcast_list,   \* Avm2.broadcast_list: event name -> list of objects
    system_classes,   \* Avm2.system_classes: "None" or "Some"
    pc,               \* position of the running API call
    caller,           \* who called Avm2::dispatch_event: "host" or "broadcast"
    event,            \* the Event given to the running API call
    on_type,          \* broadcast_event's on_type
    el_length,        \* broadcast_event's el_length
    i,                \* broadcast_event's loop index
    event_object,     \* the EventObject of the running dispatch
    target,           \* the target of the running dispatch
    dispatched,       \* targets given to events::dispatch_event by the pump
    ret,              \* the last finished API call and what it returned
    reg_order,        \* per event name, the objects in the order of their first registration
    late,             \* a <<name, object>> appended to name's list during a pump of name
    due,              \* the object of late, when the pump now running is the next of name
    pump_cancelled,   \* a listener of the pump now running has cancelled its event
    stack,            \* Avm2.stack: the operand stack
    hist,             \* the last operand stack operation
    arg_count,        \* the arg_count of the last pop_args call
    popped_args,      \* what the last pop_args call returned
    load_pc,          \* position of the running load_abc call
    lazy_init,        \* load_abc's lazy_init
    abc_scripts,      \* abc_file.scripts.len() of the running or last load_abc call
    script_k,         \* how many iterations of load_abc's loop have run
    loaded,           \* the script indices given to load_script, in call order
    translation_units,\* how many TranslationUnits were created
    scripts,          \* the scripts registered: <<unit, index>>
    init_log,         \* the scripts whose initializer has run, in run order
    load_ret,         \* what the last load_abc call returned
    load_trace,       \* what the running or last load_abc call did, in order
    initialized,      \* the scripts whose initialized flag is set
    scripts_before,   \* the scripts registered when the running or last load_abc call began
    system_prototypes,\* Avm2.system_prototypes: "None" or "Some"
    prototypes,       \* the SystemPrototypes table: field -> object
    classes,          \* the SystemClasses table: field -> object
    boot_pc,          \* the next statement of the running load_player_globals call, 0: none runs
    boot_calls,       \* how many load_player_globals calls have begun
    gs_proto,         \* the proto of gs, the scope object of the player globals
    exports,          \* the names defined in the globals domain
    boot_log,         \* what the running or last load_player_globals call did, in order
    boot_ret,         \* what the last load_player_globals call returned
    prev_ret,         \* what the call before the running or last one returned
    prev_prototypes,  \* the SystemPrototypes table when the running or last call began
    prev_classes,     \* the SystemClasses table when the running or last call began
    last_class,       \* the last class() call: its class, its super class and whether it was built
    trace_args,       \* the arguments of the last call of trace
    trace_sink,       \* the messages given to the trace sink (log.avm_trace), in order
    trace_ret,        \* what the last call of trace returned
    trace_calls       \* how many calls of trace were made

event_vars == <<broadcast_list, system_classes, pc, caller, event, on_type, el_length, i,
                event_object, target, dispatched, ret, reg_order, late, due,
                pump_cancelled>>

stack_vars == <<stack, hist, arg_count, popped_args>>

load_vars == <<load_pc, lazy_init, abc_scripts, script_k, loaded, translation_units,
               scripts, init_log, load_ret, load_trace, initialized, scripts_before>>

boot_locals == <<boot_pc, boot_calls, prototypes, classes, gs_proto, exports, boot_log,
                 boot_ret, prev_ret, prev_prototypes, prev_classes, last_class>>

boot_vars == <<system_prototypes, boot_locals>>

\* The state of the listeners' machine, but for system_classes.
listener_vars == <<broadcast_list, pc, caller, event, on_type, el_length, i, event_object,
                   target, dispatched, ret, reg_order, late, due, pump_cancelled>>

trace_vars == <<trace_args, trace_sink, trace_ret, trace_calls>>

vars == <<event_vars, stack_vars, load_vars, boot_vars, trace_vars>>

(* ----------------------------------------------------------------------- *)
(* Values of the idle machine.                                             *)
(* ----------------------------------------------------------------------- *)
NoObject == 0

NoEvent == [event_type |-> "none", cancelled |-> FALSE]

NoRet == [op |-> "none", name |-> "none", ok |-> TRUE, val |-> FALSE]

NoLate == <<"none", NoObject>>

NoHist == [op |-> "none", value |-> "none", before |-> <<>>, prev |-> "none"]

\* Event::new(event_type): a fresh event is not cancelled.
NewEvent(e) == [event_type |-> e, cancelled |-> FALSE]

(* ----------------------------------------------------------------------- *)
(* The broadcast registry (a HashMap<AvmString, Vec<Object>>).             *)
(* ----------------------------------------------------------------------- *)

\* broadcast_list.entry(event_name).or_default()
entry_or_default(bl, event_name) ==
    IF event_name \in DOMAIN bl
    THEN bl
    ELSE [k \in DOMAIN bl \cup {event_name} |-> IF k = event_name THEN <<>> ELSE bl[k]]

\* A whitelist test that lets every name through.
in_whitelist_any(event_name) == TRUE

\* BROADCAST_WHITELIST.iter().any(|x| *x == event_name)
in_whitelist(event_name) == \E x \in BROADCAST_WHITELIST : x = event_name

\* bucket.iter().any(|x| Object::ptr_eq(*x, object))
bucket_contains(bucket, object) == \E k \in 1..Len(bucket) : bucket[k] = object

\* A registration that pushes without looking for the object in the bucket.
register_without_dedup(bl, object, event_name) ==
    IF ~in_whitelist(event_name)
    THEN bl
    ELSE [entry_or_default(bl, event_name) EXCEPT ![event_name] = Append(@, object)]

\* A registration that does not test the whitelist.
register_without_whitelist(bl, object, event_name) ==
    LET b == entry_or_default(bl, event_name) IN
    IF bucket_contains(b[event_name], object)
    THEN b
    ELSE [b EXCEPT ![event_name] = Append(@, object)]

\* A registration that puts the object at the front of the bucket.
register_prepend(bl, object, event_name) ==
    IF ~in_whitelist(event_name)
    THEN bl
    ELSE LET b == entry_or_default(bl, event_name) IN
         IF bucket_contains(b[event_name], object)
         THEN b
         ELSE [b EXCEPT ![event_name] = <<object>> \o @]

\* The registry after Avm2::register_broadcast_listener(context, object, event_name).
register_broadcast_listener(bl, object, event_name) ==
    IF ~in_whitelist(event_name)
    THEN bl
    ELSE LET b == entry_or_default(bl, event_name) IN
         IF bucket_contains(b[event_name], object)
         THEN b
         ELSE [b EXCEPT ![event_name] = Append(@, object)]

\* The history of first registrations after a call with a broadcast event name.
note_registration(ro, object, event_name) ==
    IF /\ event_name \in BROADCAST_WHITELIST
       /\ ~\E k \in 1..Len(ro[event_name]) : ro[event_name][k] = object
    THEN [ro EXCEPT ![event_name] = Append(@, object)]
    ELSE ro

\* Whether that call reaches bucket.push(object).
register_pushes(bl, object, event_name) ==
    /\ in_whitelist(event_name)
    /\ ~bucket_contains(entry_or_default(bl, event_name)[event_name], object)

(* ----------------------------------------------------------------------- *)
(* Event dispatch.                                                         *)
(* ----------------------------------------------------------------------- *)

\* events::dispatch_event: true iff the event's default was not cancelled.
events_dispatch_event(eo) == ~eo.cancelled

\* A dispatch that reports whether the event was cancelled.
dispatch_event_cancelled(eo) == ~events_dispatch_event(eo)

\* Avm2::dispatch_event returns what events::dispatch_event returns.
dispatch_event(eo) == events_dispatch_event(eo)

(* ----------------------------------------------------------------------- *)
(* The system tables (globals.rs).                                         *)
(* ----------------------------------------------------------------------- *)

\* The fields of SystemPrototypes and of SystemClasses.
Fields == {"object", "function", "class", "global", "string", "boolean", "number", "int",
           "uint", "namespace", "array", "movieclip", "framelabel", "scene",
           "application_domain", "event", "video", "xml", "xml_list", "display_object",
           "shape", "point", "textfield", "textformat", "graphics", "loaderinfo",
           "bytearray", "stage", "sprite", "simplebutton", "regexp"}

Primordials == {"object", "function", "class"}

NoObj == [call |-> 0, kind |-> "none", name |-> "none"]

NoClass == [name |-> "none", resolution |-> "none", super |-> "none", built |-> FALSE]

\* The table of a system_prototypes or system_classes that is None.
NoTable == <<>>

\* Objects that are the same in every load_player_globals call.
ObjReused(call, kind, name) == [call |-> 1, kind |-> kind, name |-> name]

\* The object of the given kind and name that the call-th load_player_globals
\* call allocates.
Obj(call, kind, name) == [call |-> call, kind |-> kind, name |-> name]

\* A table whose other slots each hold an object of their own.
SystemPrototypes_new_per_slot(object, function, class, empty) ==
    [f \in Fields |->
        CASE f = "object" -> object
          [] f = "function" -> function
          [] f = "class" -> class
          [] OTHER -> [empty EXCEPT !.name = f]]

\* SystemPrototypes::new(object, function, class, empty)
SystemPrototypes_new(object, function, class, empty) ==
    [f \in Fields |->
        CASE f = "object" -> object
          [] f = "function" -> function
          [] f = "class" -> class
          [] OTHER -> empty]

\* SystemClasses::new(object, function, class, empty)
SystemClasses_new(object, function, class, empty) ==
    [f \in Fields |->
        CASE f = "object" -> object
          [] f = "function" -> function
          [] f = "class" -> class
          [] OTHER -> empty]

Init ==
    /\ broadcast_list = <<>>
    /\ system_classes = "None"
    /\ pc = "idle"
    /\ caller = "none"
    /\ event = NoEvent
    /\ on_type = "none"
    /\ el_length = 0
    /\ i = 0
    /\ event_object = NoEvent
    /\ target = NoObject
    /\ dispatched = <<>>
    /\ ret = NoRet
    /\ reg_order = [e \in EventNames |-> <<>>]
    /\ late = NoLate
    /\ due = NoObject
    /\ pump_cancelled = FALSE
    /\ stack = <<>>
    /\ hist = NoHist
    /\ arg_count = 0
    /\ popped_args = <<>>
    /\ load_pc = "idle"
    /\ lazy_init = FALSE
    /\ abc_scripts = 0
    /\ script_k = 0
    /\ loaded = <<>>
    /\ translation_units = 0
    /\ scripts = {}
    /\ init_log = <<>>
    /\ load_ret = "none"
    /\ load_trace = <<>>
    /\ initialized = {}
    /\ scripts_before = {}
    /\ system_prototypes = "None"
    /\ prototypes = NoTable
    /\ classes = NoTable
    /\ boot_pc = 0
    /\ boot_calls = 0
    /\ gs_proto = NoObj
    /\ exports = {}
    /\ boot_log = <<>>
    /\ boot_ret = "none"
    /\ prev_ret = "none"
    /\ prev_prototypes = NoTable
    /\ prev_classes = NoTable
    /\ last_class = NoClass
    /\ trace_args = <<>>
    /\ trace_sink = <<>>
    /\ trace_ret = "none"
    /\ trace_calls = 0

pump_locals == <<event, on_type, el_length, i, dispatched, due, pump_cancelled>>
dispatch_locals == <<caller, event_object, target>>

\* The running API call returns r to the host.
Return(r) ==
    /\ pc' = "idle"
    /\ caller' = "none"
    /\ event' = NoEvent
    /\ on_type' = "none"
    /\ el_length' = 0
    /\ i' = 0
    /\ event_object' = NoEvent
    /\ target' = NoObject
    /\ dispatched' = <<>>
    /\ due' = NoObject
    /\ pump_cancelled' = FALSE
    /\ ret' = r

\* An unwrap that gives a value for None.
unwrap_never_panics(option) == FALSE

\* self.system_classes.as_ref().unwrap() panics: the option is None.
unwrap_panics(option) == option = "None"

\* The running API call panics (Option::unwrap on None).
Panic ==
    /\ pc' = "panic"
    /\ UNCHANGED <<caller, event, on_type, el_length, i, event_object, target,
                   dispatched, due, pump_cancelled, ret>>

\* Avm2::load_player_globals publishes the system tables.
load_player_globals ==
    /\ pc = "idle"
    /\ system_classes = "None"
    /\ system_classes' = "Some"
    /\ system_prototypes' = "Some"
    /\ ret' = [NoRet EXCEPT !.op = "load_player_globals"]
    /\ UNCHANGED <<broadcast_list, pc, pump_locals, dispatch_locals, late>>
    /\ UNCHANGED <<reg_order, stack_vars, load_vars, boot_locals, trace_vars>>

\* The host registers object under event_name between two API calls.
HostRegister(object, event_name) ==
    /\ pc = "idle"
    /\ broadcast_list' = register_broadcast_listener(broadcast_list, object, event_name)
    /\ ret' = [op |-> "register_broadcast_listener", name |-> event_name,
               ok |-> TRUE, val |-> register_pushes(broadcast_list, object, event_name)]
    /\ reg_order' = note_registration(reg_order, object, event_name)
    /\ UNCHANGED <<system_classes, pc, pump_locals, dispatch_locals, late>>
    /\ UNCHANGED <<stack_vars, load_vars, boot_vars, trace_vars>>

\* A listener registers object under event_name while it handles an event.
ListenerRegister(object, event_name) ==
    /\ pc = "listener"
    /\ broadcast_list' = register_broadcast_listener(broadcast_list, object, event_name)
    /\ \/ late' = late
       \/ /\ caller = "broadcast"
          /\ event_name = event.event_type
          /\ register_pushes(broadcast_list, object, event_name)
          /\ late' = <<event_name, object>>
    /\ reg_order' = note_registration(reg_order, object, event_name)
    /\ UNCHANGED <<system_classes, pc, pump_locals, dispatch_locals, ret>>
    /\ UNCHANGED <<stack_vars, load_vars, boot_vars, trace_vars>>

\* A listener cancels the event it handles (Event.preventDefault).
ListenerCancel ==
    /\ pc = "listener"
    /\ ~event_object.cancelled
    /\ event_object' = [event_object EXCEPT !.cancelled = TRUE]
    /\ pump_cancelled' = (caller = "broadcast")
    /\ UNCHANGED <<broadcast_list, system_classes, pc, event, on_type, el_length, i,
                   dispatched, due, caller, target, ret, late>>
    /\ UNCHANGED <<reg_order, stack_vars, load_vars, boot_vars, trace_vars>>

\* Avm2::dispatch_event up to its call of events::dispatch_event: the event is
\* wrapped in a new EventObject and the listeners of object start to run.
EnterListener(who, ev, object) ==
    /\ pc' = "listener"
    /\ caller' = who
    /\ event_object' = ev
    /\ target' = object

DispatchRet(ok, val) == [op |-> "dispatch_event", name |-> "none", ok |-> ok, val |-> val]

\* The host calls Avm2::dispatch_event(context, Event::new(e), object).
HostDispatch(e, object) ==
    /\ pc = "idle"
    /\ IF unwrap_panics(system_classes)
       THEN Panic
       ELSE \/ \* EventObject::from_event fails
               Return(DispatchRet(FALSE, FALSE))
            \/ /\ EnterListener("host", NewEvent(e), object)
               /\ event' = NewEvent(e)
               /\ ret' = NoRet
               /\ UNCHANGED <<on_type, el_length, i, dispatched, due, pump_cancelled>>
    /\ UNCHANGED <<broadcast_list, system_classes, late>>
    /\ UNCHANGED <<reg_order, stack_vars, load_vars, boot_vars, trace_vars>>

\* events::dispatch_event returns to Avm2::dispatch_event, called by the host.
HostDispatchReturn ==
    /\ pc = "listener"
    /\ caller = "host"
    /\ \/ Return(DispatchRet(TRUE, dispatch_event(event_object)))
       \/ \* a listener failed
          Return(DispatchRet(FALSE, FALSE))
    /\ UNCHANGED <<broadcast_list, system_classes, late>>
    /\ UNCHANGED <<reg_order, stack_vars, load_vars, boot_vars, trace_vars>>

(* ----------------------------------------------------------------------- *)
(* Avm2::broadcast_event.                                                  *)
(* ----------------------------------------------------------------------- *)

BroadcastRet(name, ok) ==
    [op |-> "broadcast_event", name |-> name, ok |-> ok, val |-> FALSE]

\* An error that is noted while the loop goes on with the next object.
try_err_continue(r) ==
    /\ pc' = "loop"
    /\ i' = i + 1
    /\ caller' = "none"
    /\ event_object' = NoEvent
    /\ target' = NoObject
    /\ ret' = r
    /\ UNCHANGED <<event, on_type, el_length, dispatched, due, pump_cancelled>>

\* `?` in the loop of broadcast_event: the error leaves the function.
try_err(r) == Return(r)

\* A pump whose listeners are all given the one event, not a clone of it.
event_after_dispatch_shared(ev, eo) == [ev EXCEPT !.cancelled = eo.cancelled]

\* The event of the pump after a dispatch: event.clone() was given to the
\* EventObject eo, so what the listeners did to eo is not in it.
event_after_dispatch(ev, eo) == ev

\* The entry of broadcast_event(context, Event::new(e), t): the whitelist test
\* and the snapshot of the list's length.
broadcast_event(e, t) ==
    /\ pc = "idle"
    /\ IF ~in_whitelist(e)
       THEN /\ Return(BroadcastRet(e, TRUE))
            /\ UNCHANGED <<broadcast_list, late>>
       ELSE /\ broadcast_list' = entry_or_default(broadcast_list, e)
            /\ el_length' = Len(broadcast_list'[e])
            /\ i' = 0
            /\ event' = NewEvent(e)
            /\ on_type' = t
            /\ pc' = "loop"
            /\ dispatched' = <<>>
            /\ due' = IF late[1] = e THEN late[2] ELSE NoObject
            /\ pump_cancelled' = FALSE
            /\ late' = IF late[1] = e THEN NoLate ELSE late
            /\ ret' = NoRet
            /\ UNCHANGED dispatch_locals
    /\ UNCHANGED system_classes
    /\ UNCHANGED <<reg_order, stack_vars, load_vars, boot_vars, trace_vars>>

\* A lookup that is off by one.
bucket_get_next(bucket, k) == IF k + 2 <= Len(bucket) THEN bucket[k + 2] ELSE NoObject

\* broadcast_list.get(&event_name).unwrap().get(i).copied(): NoObject is None.
bucket_get(bucket, k) == IF k + 1 <= Len(bucket) THEN bucket[k + 1] ELSE NoObject

\* A loop that reads the length of the list at every iteration.
loop_bound_live == Len(broadcast_list[event.event_type])

\* The end of the range 0..el_length of the loop, fixed when the loop starts.
loop_bound == el_length

\* One iteration of the loop of broadcast_event, up to the call of
\* events::dispatch_event for the i-th object.
BroadcastIter ==
    /\ pc = "loop"
    /\ i < loop_bound
    /\ LET object == bucket_get(broadcast_list[event.event_type], i) IN
       IF object = NoObject
       THEN /\ i' = i + 1
            /\ UNCHANGED <<pc, event, on_type, el_length, dispatched, due,
                           pump_cancelled, dispatch_locals, ret>>
       ELSE \/ \* object.is_of_type(on_type) fails
               try_err(BroadcastRet(event.event_type, FALSE))
            \/ /\ ~is_of_type(object, on_type)
               /\ i' = i + 1
               /\ UNCHANGED <<pc, event, on_type, el_length, dispatched, due,
                              pump_cancelled, dispatch_locals, ret>>
            \/ /\ is_of_type(object, on_type)
               /\ IF unwrap_panics(system_classes)
                  THEN Panic
                  ELSE \/ \* EventObject::from_event fails
                          try_err(BroadcastRet(event.event_type, FALSE))
                       \/ /\ EnterListener("broadcast", event, object)
                          /\ dispatched' = Append(dispatched, object)
                          /\ UNCHANGED <<event, on_type, el_length, i, due, pump_cancelled,
                                         ret>>
    /\ UNCHANGED <<broadcast_list, system_classes, late>>
    /\ UNCHANGED <<reg_order, stack_vars, load_vars, boot_vars, trace_vars>>

\* events::dispatch_event returns to the loop of broadcast_event.
BroadcastDispatchReturn ==
    /\ pc = "listener"
    /\ caller = "broadcast"
    /\ \/ /\ pc' = "loop"
          /\ i' = i + 1
          /\ caller' = "none"
          /\ event_object' = NoEvent
          /\ target' = NoObject
          /\ event' = event_after_dispatch(event, event_object)
          /\ UNCHANGED <<on_type, el_length, dispatched, due, pump_cancelled, ret>>
       \/ \* a listener failed
          try_err(BroadcastRet(event.event_type, FALSE))
    /\ UNCHANGED <<broadcast_list, system_classes, late>>
    /\ UNCHANGED <<reg_order, stack_vars, load_vars, boot_vars, trace_vars>>

\* The loop of broadcast_event is over: Ok(()).
BroadcastDone ==
    /\ pc = "loop"
    /\ i >= loop_bound
    /\ Return(BroadcastRet(event.event_type, TRUE))
    /\ UNCHANGED <<broadcast_list, system_classes, late>>
    /\ UNCHANGED <<reg_order, stack_vars, load_vars, boot_vars, trace_vars>>

(* ----------------------------------------------------------------------- *)
(* The operand stack.                                                      *)
(* ----------------------------------------------------------------------- *)

\* Vec::push
vec_push(s, value) == Append(s, value)

\* A pop that takes the oldest element.
vec_pop_front(s) ==
    IF Len(s) = 0
    THEN [some |-> FALSE, value |-> "none", rest |-> s]
    ELSE [some |-> TRUE, value |-> s[1], rest |-> SubSeq(s, 2, Len(s))]

\* Vec::pop: the last element, if any, and the elements left.
vec_pop(s) ==
    IF Len(s) = 0
    THEN [some |-> FALSE, value |-> "none", rest |-> s]
    ELSE [some |-> TRUE, value |-> s[Len(s)], rest |-> SubSeq(s, 1, Len(s) - 1)]

\* A pop that fails on an empty stack (Option::unwrap) instead of defaulting.
pop_value_unwrap(s) == IF vec_pop(s).some THEN vec_pop(s).value ELSE "panic"

\* self.stack.pop().unwrap_or_else(|| { log::warn!(..); Value::Undefined })
pop_value(s) == IF vec_pop(s).some THEN vec_pop(s).value ELSE "Undefined"

\* Avm2::push(value)
push(value) ==
    /\ Len(stack) < MaxStack
    /\ stack' = vec_push(stack, value)
    /\ hist' = [op |-> "push", value |-> value, before |-> stack, prev |-> hist.op]
    /\ UNCHANGED <<arg_count, popped_args>>
    /\ UNCHANGED <<event_vars, load_vars, boot_vars, trace_vars>>

\* Avm2::pop()
pop ==
    /\ stack' = vec_pop(stack).rest
    /\ hist' = [op |-> "pop", value |-> pop_value(stack), before |-> stack, prev |-> hist.op]
    /\ UNCHANGED <<arg_count, popped_args>>
    /\ UNCHANGED <<event_vars, load_vars, boot_vars, trace_vars>>

\* for arg in args.iter_mut() { *arg = self.pop(); } for the slots k..Len(args):
\* a loop that fills the slots from the first.
RECURSIVE pop_args_loop_forward(_, _, _)
pop_args_loop_forward(s, args, k) ==
    IF k > Len(args)
    THEN [args |-> args, rest |-> s]
    ELSE pop_args_loop_forward(vec_pop(s).rest, [args EXCEPT ![k] = pop_value(s)], k + 1)

\* A pop_args whose first argument is the top of the stack.
pop_args_forward(s, n) ==
    pop_args_loop_forward(s, [k \in 1..n |-> "Undefined"], 1)

\* for arg in args.iter_mut().rev() { *arg = self.pop(); } for the slots k..1:
\* the slots are filled from the last, each by one pop.
RECURSIVE pop_args_loop(_, _, _)
pop_args_loop(s, args, k) ==
    IF k = 0
    THEN [args |-> args, rest |-> s]
    ELSE pop_args_loop(vec_pop(s).rest, [args EXCEPT ![k] = pop_value(s)], k - 1)

\* The list pop_args(n) returns and the stack it leaves: args is resized to n
\* Undefined, then filled.
pop_args_result(s, n) ==
    pop_args_loop(s, [k \in 1..n |-> "Undefined"], n)

\* Avm2::pop_args(arg_count)
pop_args(n) ==
    /\ stack' = pop_args_result(stack, n).rest
    /\ popped_args' = pop_args_result(stack, n).args
    /\ arg_count' = n
    /\ hist' = [op |-> "pop_args", value |-> "none", before |-> stack, prev |-> hist.op]
    /\ UNCHANGED <<event_vars, load_vars, boot_vars, trace_vars>>

NextStack ==
    \/ \E v \in Values : push(v)
    \/ pop
    \/ \E n \in 0..MaxArgs : pop_args(n)

SpecStack == Init /\ [][NextStack]_vars

(* ----------------------------------------------------------------------- *)
(* Avm2::load_abc.                                                         *)
(* ----------------------------------------------------------------------- *)

\* A loop in declaration order, 0..n.
script_order_forward(n) == [k \in 1..n |-> k - 1]

\* (0..n).rev(): the script index of each iteration of the loop.
script_order(n) == [k \in 1..n |-> n - k]

\* An eager loader that ignores lazy_init.
runs_initializer_always(lazy) == TRUE

\* if !lazy_init { script.globals(context)?; }
runs_initializer(lazy) == ~lazy

\* The entry of load_abc(abc, _, lazy, context, domain) for an ABC file that
\* declares n scripts: the file is decoded and wrapped in a TranslationUnit.
load_abc(n, lazy) ==
    /\ load_pc = "idle"
    /\ translation_units < MaxLoads
    /\ \/ \* read.read() fails
          /\ load_ret' = "Err"
          /\ abc_scripts' = 0
          /\ script_k' = 0
          /\ loaded' = <<>>
          /\ UNCHANGED <<load_pc, lazy_init, translation_units>>
       \/ /\ translation_units' = translation_units + 1
          /\ abc_scripts' = n
          /\ lazy_init' = lazy
          /\ script_k' = 0
          /\ loaded' = <<>>
          /\ load_pc' = "loop"
          /\ load_ret' = "none"
    /\ load_trace' = <<>>
    /\ scripts_before' = scripts
    /\ UNCHANGED <<scripts, init_log, initialized>>
    /\ UNCHANGED <<event_vars, stack_vars, boot_vars, trace_vars>>

\* One iteration of the loop of load_abc: tunit.load_script(i, context)?, and
\* script.globals(context)? unless lazy_init.  Script::globals sets the
\* script's initialized flag and runs its initializer.
LoadIter ==
    /\ load_pc = "loop"
    /\ script_k < abc_scripts
    /\ LET idx == script_order(abc_scripts)[script_k + 1]
           script == <<translation_units, idx>>
       IN  \/ \* load_script fails
              /\ load_ret' = "Err"
              /\ load_pc' = "idle"
              /\ UNCHANGED <<script_k, loaded, scripts, init_log, load_trace, initialized>>
           \/ /\ loaded' = Append(loaded, idx)
              /\ scripts' = scripts \cup {script}
              /\ IF ~runs_initializer(lazy_init)
                 THEN /\ script_k' = script_k + 1
                      /\ load_trace' = Append(load_trace, <<"load", idx>>)
                      /\ UNCHANGED <<load_pc, load_ret, init_log, initialized>>
                 ELSE /\ initialized' = initialized \cup {script}
                      /\ \/ \* the script initializer runs
                            /\ init_log' = Append(init_log, script)
                            /\ load_trace' = load_trace \o <<<<"load", idx>>, <<"init", idx>>>>
                            /\ script_k' = script_k + 1
                            /\ UNCHANGED <<load_pc, load_ret>>
                         \/ \* script.globals fails
                            /\ load_ret' = "Err"
                            /\ load_pc' = "idle"
                            /\ load_trace' = load_trace \o <<<<"load", idx>>, <<"globals_err", idx>>>>
                            /\ UNCHANGED <<script_k, init_log>>
    /\ UNCHANGED <<lazy_init, abc_scripts, translation_units, scripts_before>>
    /\ UNCHANGED <<event_vars, stack_vars, boot_vars, trace_vars>>

\* The loop of load_abc is over: Ok(()).
LoadDone ==
    /\ load_pc = "loop"
    /\ script_k = abc_scripts
    /\ load_pc' = "idle"
    /\ load_ret' = "Ok"
    /\ UNCHANGED <<lazy_init, abc_scripts, script_k, loaded, translation_units,
                   scripts, init_log, load_trace, initialized, scripts_before>>
    /\ UNCHANGED <<event_vars, stack_vars, boot_vars, trace_vars>>

\* Script::globals(script), as an export of a registered script is resolved
\* between two load_abc calls: the initializer runs unless the script's
\* initialized flag is set.
script_globals(script) ==
    /\ load_pc = "idle"
    /\ script \in scripts
    /\ Len(init_log) < MaxInits
    /\ IF script \in initialized
       THEN UNCHANGED <<initialized, init_log>>
       ELSE /\ initialized' = initialized \cup {script}
            /\ init_log' = Append(init_log, script)
    /\ UNCHANGED <<load_pc, lazy_init, abc_scripts, script_k, loaded, translation_units,
                   scripts, load_ret, load_trace, scripts_before>>
    /\ UNCHANGED <<event_vars, stack_vars, boot_vars, trace_vars>>

\* Avm2::run_script_initializer(script, context), called between two load_abc
\* calls: the script's init method is run.
run_script_initializer(script) ==
    /\ load_pc = "idle"
    /\ script \in scripts
    /\ Len(init_log) < MaxInits
    /\ init_log' = Append(init_log, script)
    /\ UNCHANGED <<load_pc, lazy_init, abc_scripts, script_k, loaded, translation_units,
                   scripts, load_ret, load_trace, initialized, scripts_before>>
    /\ UNCHANGED <<event_vars, stack_vars, boot_vars, trace_vars>>

\* The scripts a translation unit can hold.
AllScripts == (1..MaxLoads) \X (0..(MaxScripts - 1))

NextLoad ==
    \/ \E n \in 0..MaxScripts, lazy \in BOOLEAN : load_abc(n, lazy)
    \/ LoadIter
    \/ LoadDone
    \/ \E script \in AllScripts : script_globals(script)
    \/ \E script \in AllScripts : run_script_initializer(script)

SpecLoad == Init /\ [][NextLoad]_vars

(* ----------------------------------------------------------------------- *)
(* globals::load_player_globals.                                           *)
(* ----------------------------------------------------------------------- *)

\* The statements of load_player_globals, in program order.  fallible: the
\* statement ends with `?`.
BootSteps == <<
    [op |-> "early_domain", name |-> "none", fallible |-> FALSE],
    [op |-> "empty_script", name |-> "none", fallible |-> FALSE],
    [op |-> "object_create_proto", name |-> "none", fallible |-> FALSE],
    [op |-> "function_create_proto", name |-> "none", fallible |-> FALSE],
    [op |-> "object_fill_proto", name |-> "none", fallible |-> TRUE],
    [op |-> "function_fill_proto", name |-> "none", fallible |-> TRUE],
    [op |-> "class_create_class", name |-> "none", fallible |-> TRUE],
    [op |-> "dynamic_class", name |-> "object", fallible |-> TRUE],
    [op |-> "dynamic_class", name |-> "function", fallible |-> TRUE],
    [op |-> "dynamic_class", name |-> "class", fallible |-> TRUE],
    [op |-> "publish_prototypes", name |-> "none", fallible |-> FALSE],
    [op |-> "publish_classes", name |-> "none", fallible |-> FALSE],
    [op |-> "install_traits", name |-> "object", fallible |-> TRUE],
    [op |-> "install_traits", name |-> "function", fallible |-> TRUE],
    [op |-> "install_traits", name |-> "class", fallible |-> TRUE],
    [op |-> "cinit", name |-> "object", fallible |-> TRUE],
    [op |-> "cinit", name |-> "function", fallible |-> TRUE],
    [op |-> "cinit", name |-> "class", fallible |-> TRUE],
    [op |-> "system_class", name |-> "global", fallible |-> TRUE],
    [op |-> "system_class", name |-> "string", fallible |-> TRUE],
    [op |-> "system_class", name |-> "boolean", fallible |-> TRUE],
    [op |-> "system_class", name |-> "number", fallible |-> TRUE],
    [op |-> "system_class", name |-> "int", fallible |-> TRUE],
    [op |-> "system_class", name |-> "uint", fallible |-> TRUE],
    [op |-> "system_class", name |-> "namespace", fallible |-> TRUE],
    [op |-> "system_class", name |-> "array", fallible |-> TRUE],
    [op |-> "set_proto", name |-> "none", fallible |-> FALSE],
    [op |-> "function", name |-> "trace", fallible |-> TRUE],
    [op |-> "function", name |-> "isFinite", fallible |-> TRUE],
    [op |-> "function", name |-> "isNaN", fallible |-> TRUE],
    [op |-> "constant", name |-> "undefined", fallible |-> TRUE],
    [op |-> "constant", name |-> "null", fallible |-> TRUE],
    [op |-> "constant", name |-> "NaN", fallible |-> TRUE],
    [op |-> "constant", name |-> "Infinity", fallible |-> TRUE],
    [op |-> "class", name |-> "math", fallible |-> TRUE],
    [op |-> "system_class", name |-> "regexp", fallible |-> TRUE],
    [op |-> "system_class", name |-> "xml", fallible |-> TRUE],
    [op |-> "system_class", name |-> "xml_list", fallible |-> TRUE],
    [op |-> "system_class", name |-> "application_domain", fallible |-> TRUE],
    [op |-> "class_unchecked", name |-> "capabilities", fallible |-> FALSE],
    [op |-> "class", name |-> "system", fallible |-> TRUE],
    [op |-> "system_class", name |-> "event", fallible |-> TRUE],
    [op |-> "class", name |-> "ieventdispatcher", fallible |-> TRUE],
    [op |-> "class", name |-> "eventdispatcher", fallible |-> TRUE],
    [op |-> "system_class", name |-> "bytearray", fallible |-> TRUE],
    [op |-> "domain_memory", name |-> "none", fallible |-> TRUE],
    [op |-> "class", name |-> "endian", fallible |-> TRUE],
    [op |-> "class", name |-> "compression_algorithm", fallible |-> TRUE],
    [op |-> "function", name |-> "getTimer", fallible |-> TRUE],
    [op |-> "system_class", name |-> "display_object", fallible |-> TRUE],
    [op |-> "system_class", name |-> "shape", fallible |-> TRUE],
    [op |-> "class", name |-> "interactiveobject", fallible |-> TRUE],
    [op |-> "system_class", name |-> "simplebutton", fallible |-> TRUE],
    [op |-> "class", name |-> "displayobjectcontainer", fallible |-> TRUE],
    [op |-> "system_class", name |-> "sprite", fallible |-> TRUE],
    [op |-> "system_class", name |-> "movieclip", fallible |-> TRUE],
    [op |-> "system_class", name |-> "framelabel", fallible |-> TRUE],
    [op |-> "system_class", name |-> "scene", fallible |-> TRUE],
    [op |-> "system_class", name |-> "graphics", fallible |-> TRUE],
    [op |-> "class", name |-> "jointstyle", fallible |-> TRUE],
    [op |-> "class", name |-> "linescalemode", fallible |-> TRUE],
    [op |-> "class", name |-> "capsstyle", fallible |-> TRUE],
    [op |-> "system_class", name |-> "loaderinfo", fallible |-> TRUE],
    [op |-> "class", name |-> "actionscriptversion", fallible |-> TRUE],
    [op |-> "class", name |-> "swfversion", fallible |-> TRUE],
    [op |-> "system_class", name |-> "stage", fallible |-> TRUE],
    [op |-> "class", name |-> "stagescalemode", fallible |-> TRUE],
    [op |-> "class", name |-> "stagealign", fallible |-> TRUE],
    [op |-> "class", name |-> "stagedisplaystate", fallible |-> TRUE],
    [op |-> "class", name |-> "stagequality", fallible |-> TRUE],
    [op |-> "system_class", name |-> "point", fallible |-> TRUE],
    [op |-> "system_class", name |-> "video", fallible |-> TRUE],
    [op |-> "system_class", name |-> "textfield", fallible |-> TRUE],
    [op |-> "system_class", name |-> "textformat", fallible |-> TRUE],
    [op |-> "class", name |-> "textfieldautosize", fallible |-> TRUE],
    [op |-> "class", name |-> "textformatalign", fallible |-> TRUE],
    [op |-> "class", name |-> "textfieldtype", fallible |-> TRUE],
    [op |-> "return_ok", name |-> "none", fallible |-> FALSE]
>>

\* The statements with Class's class initializer and the global class swapped.
step_at_global_first(k) ==
    BootSteps[IF k = 18 THEN 19 ELSE IF k = 19 THEN 18 ELSE k]

\* The statements with Class's install_traits and Object's class initializer swapped.
step_at_cinit_first(k) ==
    BootSteps[IF k = 15 THEN 16 ELSE IF k = 16 THEN 15 ELSE k]

\* The statements with gs.set_proto and the global class swapped.
step_at_set_proto_first(k) ==
    BootSteps[IF k = 19 THEN 27 ELSE IF k = 27 THEN 19 ELSE k]

\* The statements with RegExp added by class(..)? and not by avm2_system_class!.
step_at_regexp_plain(k) ==
    IF k = 36 THEN [BootSteps[k] EXCEPT !.op = "class"] ELSE BootSteps[k]

\* The k-th statement of load_player_globals.
step_at(k) == BootSteps[k]

\* An entry of boot_log.
Ev(op, name, recv) == [op |-> op, name |-> name, recv |-> recv]

\* Avm2::load_player_globals(context): globals::load_player_globals is entered.
\* The host does not call it again on a VM whose bootstrap has failed.
globals_load_player_globals ==
    /\ boot_pc = 0
    /\ boot_calls < MaxBoots
    /\ boot_ret # "Err"
    /\ boot_calls' = boot_calls + 1
    /\ boot_pc' = 1
    /\ boot_ret' = "none"
    /\ boot_log' = <<>>
    /\ prev_ret' = boot_ret
    /\ prev_prototypes' = prototypes
    /\ prev_classes' = classes
    /\ UNCHANGED <<system_prototypes, system_classes, prototypes, classes, gs_proto, exports,
                   last_class>>
    /\ UNCHANGED <<listener_vars, stack_vars, load_vars, trace_vars>>

\* What class(activation, class_def, domain, script) logs up to and with
\* ClassObject::from_class, which runs the class initializer on the new class.
class_realized(name) ==
    <<Ev("from_class", name, NoObj), Ev("cinit", name, Obj(boot_calls, "class", name))>>

\* class(activation, class_def, domain, script) returns Ok((class_object, proto)).
class_ok(name) ==
    /\ boot_log' = boot_log \o class_realized(name) \o <<Ev("export", name, NoObj)>>
    /\ exports' = exports \cup {name}

\* The statement st runs to its end.
step_effect(st) ==
    CASE st.op = "early_domain" ->
            /\ gs_proto' = NoObj
            /\ boot_log' = Append(boot_log, Ev(st.op, st.name, NoObj))
            /\ UNCHANGED <<system_prototypes, system_classes, prototypes, classes, exports>>
      [] st.op \in {"dynamic_class", "function", "constant"} ->
            /\ exports' = exports \cup {st.name}
            /\ boot_log' = Append(boot_log, Ev(st.op, st.name, NoObj))
            /\ UNCHANGED <<system_prototypes, system_classes, prototypes, classes, gs_proto>>
      [] st.op = "publish_prototypes" ->
            /\ system_prototypes' = "Some"
            /\ prototypes' = SystemPrototypes_new(Obj(boot_calls, "proto", "object"),
                                                  Obj(boot_calls, "proto", "function"),
                                                  Obj(boot_calls, "proto", "class"),
                                                  Obj(boot_calls, "bare", "prototypes"))
            /\ boot_log' = Append(boot_log, Ev(st.op, st.name, NoObj))
            /\ UNCHANGED <<system_classes, classes, gs_proto, exports>>
      [] st.op = "publish_classes" ->
            /\ system_classes' = "Some"
            /\ classes' = SystemClasses_new(Obj(boot_calls, "class", "object"),
                                            Obj(boot_calls, "class", "function"),
                                            Obj(boot_calls, "class", "class"),
                                            Obj(boot_calls, "bare", "classes"))
            /\ boot_log' = Append(boot_log, Ev(st.op, st.name, NoObj))
            /\ UNCHANGED <<system_prototypes, prototypes, gs_proto, exports>>
      [] st.op = "cinit" ->
            /\ boot_log' = Append(boot_log, Ev(st.op, st.name, Obj(boot_calls, "class", st.name)))
            /\ UNCHANGED <<system_prototypes, system_classes, prototypes, classes, gs_proto,
                           exports>>
      [] st.op = "system_class" ->
            /\ class_ok(st.name)
            /\ classes' = [classes EXCEPT ![st.name] = Obj(boot_calls, "class", st.name)]
            /\ prototypes' = [prototypes EXCEPT ![st.name] = Obj(boot_calls, "proto", st.name)]
            /\ UNCHANGED <<system_prototypes, system_classes, gs_proto>>
      [] st.op \in {"class", "class_unchecked"} ->
            /\ class_ok(st.name)
            /\ UNCHANGED <<system_prototypes, system_classes, prototypes, classes, gs_proto>>
      [] st.op = "set_proto" ->
            /\ gs_proto' = prototypes["global"]
            /\ boot_log' = Append(boot_log, Ev(st.op, st.name, NoObj))
            /\ UNCHANGED <<system_prototypes, system_classes, prototypes, classes, exports>>
      [] OTHER ->
            /\ boot_log' = Append(boot_log, Ev(st.op, st.name, NoObj))
            /\ UNCHANGED <<system_prototypes, system_classes, prototypes, classes, gs_proto,
                           exports>>

\* The statements that call class(activation, class_def, domain, script).
ClassOps == {"system_class", "class", "class_unchecked"}

\* What global.resolve_multiname(sc_name) can give for a class definition:
\* the class declares no super class, Ok(Some(name)), Ok(None), Err.
Resolutions == {"no_super", "found", "missing"}

\* global.resolve_multiname(sc_name)?.unwrap_or_else(|| QName::dynamic_name("Object")):
\* the name of the super class that class() looks up in the global scope.
super_name(resolution) == IF resolution = "missing" THEN "Object" ELSE "declared"

\* What a class() call leaves: the class object built, if any, and its super class.
class_call(name, resolution, built) ==
    [name |-> name,
     resolution |-> resolution,
     super |-> IF built /\ resolution # "no_super" THEN super_name(resolution) ELSE "none",
     built |-> built]

\* The statement st fails with nothing done; in class(), before or in
\* ClassObject::from_class.
step_error(st) ==
    /\ boot_log' = Append(boot_log, Ev("error", st.name, NoObj))
    /\ IF st.op \in ClassOps
       THEN \E res \in Resolutions \cup {"error"} :
               last_class' = class_call(st.name, res, FALSE)
       ELSE UNCHANGED last_class
    /\ UNCHANGED <<system_prototypes, system_classes, prototypes, classes, gs_proto, exports>>

\* class() fails at export_definition or later, after the class was realized.
class_error(st) ==
    /\ st.op \in ClassOps
    /\ boot_log' = boot_log \o class_realized(st.name) \o <<Ev("error", st.name, NoObj)>>
    /\ \E res \in Resolutions : last_class' = class_call(st.name, res, TRUE)
    /\ UNCHANGED <<system_prototypes, system_classes, prototypes, classes, gs_proto, exports>>

\* One statement of load_player_globals.
BootStep ==
    /\ boot_pc > 0
    /\ LET st == step_at(boot_pc) IN
       \/ \* Ok(()) at the end of the function
          /\ st.op = "return_ok"
          /\ boot_pc' = 0
          /\ boot_ret' = "Ok"
          /\ UNCHANGED <<system_prototypes, system_classes, prototypes, classes, gs_proto,
                         exports, boot_log, last_class>>
       \/ /\ st.op # "return_ok"
          /\ step_effect(st)
          /\ IF st.op \in ClassOps
             THEN \E res \in Resolutions : last_class' = class_call(st.name, res, TRUE)
             ELSE UNCHANGED last_class
          /\ boot_pc' = boot_pc + 1
          /\ UNCHANGED boot_ret
       \/ \* the statement fails and `?` returns the error
          /\ st.fallible
          /\ (step_error(st) \/ class_error(st))
          /\ boot_pc' = 0
          /\ boot_ret' = "Err"
       \/ \* class(..) fails and its result is dropped
          /\ st.op = "class_unchecked"
          /\ (step_error(st) \/ class_error(st))
          /\ boot_pc' = boot_pc + 1
          /\ UNCHANGED boot_ret
    /\ UNCHANGED <<boot_calls, prev_ret, prev_prototypes, prev_classes>>
    /\ UNCHANGED <<listener_vars, stack_vars, load_vars, trace_vars>>

NextBoot ==
    \/ globals_load_player_globals
    \/ BootStep

SpecBoot == Init /\ [][NextBoot]_vars

(* ----------------------------------------------------------------------- *)
(* The built-in trace (globals.rs).                                        *)
(* ----------------------------------------------------------------------- *)

\* The values given to trace: those of the operand stack and an object whose
\* toString throws.
TraceValues == Values \cup {"Thrower"}

\* Value::coerce_to_string(activation): the string of a value, or an error.
coerce_to_string(value) ==
    CASE value = "Undefined" -> [ok |-> TRUE, str |-> "undefined"]
      [] value = "Null" -> [ok |-> TRUE, str |-> "null"]
      [] value = "True" -> [ok |-> TRUE, str |-> "true"]
      [] OTHER -> [ok |-> FALSE, str |-> ""]

\* for arg in &args[1..] { message.push(' '); message.push_str(&arg.coerce_to_string()?); }
RECURSIVE trace_rest(_, _)
trace_rest(message, args) ==
    IF args = <<>>
    THEN [ok |-> TRUE, message |-> message]
    ELSE LET c == coerce_to_string(Head(args)) IN
         IF c.ok
         THEN trace_rest(message \o " " \o c.str, Tail(args))
         ELSE [ok |-> FALSE, message |-> message]

\* A message with a space in front of every argument, the first too.
trace_message_leading_space(args) == trace_rest("", args)

\* The message trace builds from its arguments, or the error of a coercion.
trace_message(args) ==
    IF args = <<>>
    THEN [ok |-> TRUE, message |-> ""]
    ELSE LET c == coerce_to_string(args[1]) IN
         IF c.ok
         THEN trace_rest("" \o c.str, Tail(args))
         ELSE [ok |-> FALSE, message |-> ""]

\* The sequences of at most n values of S.
SeqsUpTo(S, n) == UNION {[1..k -> S] : k \in 0..n}

\* trace(activation, this, args)
trace(args) ==
    /\ trace_calls < MaxTraces
    /\ trace_calls' = trace_calls + 1
    /\ trace_args' = args
    /\ LET m == trace_message(args) IN
       IF m.ok
       THEN /\ trace_sink' = Append(trace_sink, m.message)
            /\ trace_ret' = "Undefined"
       ELSE /\ trace_sink' = trace_sink
            /\ trace_ret' = "Err"
    /\ UNCHANGED <<event_vars, stack_vars, load_vars, boot_vars>>

NextTrace == \E args \in SeqsUpTo(TraceValues, MaxArgs) : trace(args)

SpecTrace == Init /\ [][NextTrace]_vars

Next ==
    \/ load_player_globals
    \/ \E o \in Objects, e \in RegisterNames : HostRegister(o, e)
    \/ \E o \in Objects, e \in RegisterNames : ListenerRegister(o, e)
    \/ ListenerCancel
    \/ \E o \in Objects, e \in EventNames : HostDispatch(e, o)
    \/ HostDispatchReturn
    \/ \E e \in EventNames, t \in OnTypes : broadcast_event(e, t)
    \/ BroadcastIter
    \/ BroadcastDispatchReturn
    \/ BroadcastDone

Spec == Init /\ [][Next]_vars

(* ----------------------------------------------------------------------- *)
(* Properties of the broadcast registry.                                   *)
(* ----------------------------------------------------------------------- *)

\* A step that is a call of register_broadcast_listener(object, event_name).
RegisterCall(object, event_name) ==
    \/ HostRegister(object, event_name)
    \/ ListenerRegister(object, event_name)

NoDuplicateListeners ==
    \A e \in DOMAIN broadcast_list :
        \A j, k \in 1..Len(broadcast_list[e]) :
            j # k => broadcast_list[e][j] # broadcast_list[e][k]

ReRegisterLeavesList ==
    \A o \in Objects, e \in RegisterNames :
        ( /\ RegisterCall(o, e)
          /\ e \in DOMAIN broadcast_list
          /\ bucket_contains(broadcast_list[e], o) )
        => broadcast_list' = broadcast_list

\* C1: no broadcast bucket holds the same object twice, and registering an
\* object under an event whose list already holds it leaves the list as it is.
C1_IdentityDedup == []NoDuplicateListeners /\ [][ReRegisterLeavesList]_vars

\* A second registration of an object just found it in its bucket.
C1_Witness ==
    /\ ret.op = "register_broadcast_listener"
    /\ ret.name \in BROADCAST_WHITELIST
    /\ ~ret.val
    /\ \E o \in Objects :
           Cardinality({k \in 1..Len(broadcast_list[ret.name]) :
                            broadcast_list[ret.name][k] = o}) = 1

\* C2: every key of the broadcast registry is "enterFrame", "exitFrame" or
\* "frameConstructed", the keys created by broadcast_event included.
C2_KeysWhitelisted ==
    \A e \in DOMAIN broadcast_list : e \in {"enterFrame", "exitFrame", "frameConstructed"}

\* broadcast_event has created the key "exitFrame", which nothing is registered
\* under, and a call with a name outside the whitelist has just returned.
C2_Witness ==
    /\ "exitFrame" \in DOMAIN broadcast_list
    /\ "enterFrame" \in DOMAIN broadcast_list
    /\ ret.name = "notAnEvent"

NotWhitelistedIsNoOp ==
    \A e \in EventNames \ {"enterFrame", "exitFrame", "frameConstructed"} :
        /\ \A o \in Objects :
               RegisterCall(o, e) => broadcast_list' = broadcast_list
        /\ \A t \in OnTypes :
               broadcast_event(e, t) =>
                   /\ broadcast_list' = broadcast_list
                   /\ ret' = BroadcastRet(e, TRUE)
                   /\ pc' = "idle"
                   /\ dispatched' = <<>>

\* C3: with an event name outside the whitelist, register_broadcast_listener
\* leaves the registry unchanged, and broadcast_event returns Ok at once, leaves
\* the registry unchanged and dispatches to no object.
C3_NotWhitelistedNoOp == [][NotWhitelistedIsNoOp]_vars

\* broadcast_event of "notAnEvent" has returned Ok while objects are registered.
C3_Witness ==
    /\ ret = BroadcastRet("notAnEvent", TRUE)
    /\ \E e \in DOMAIN broadcast_list : Len(broadcast_list[e]) > 0

(* ----------------------------------------------------------------------- *)
(* Properties of the pump.                                                 *)
(* ----------------------------------------------------------------------- *)

\* broadcast_event is running: in its loop, or in a dispatch it made.
PumpRunning == pc = "loop" \/ (pc = "listener" /\ caller = "broadcast")

\* The loop of broadcast_event is over and the call is about to return Ok.
PumpComplete == pc = "loop" /\ i = el_length

InSeq(seq, x) == \E k \in 1..Len(seq) : seq[k] = x

PosIn(seq, x) == CHOOSE k \in 1..Len(seq) : seq[k] = x

\* The list of the event now pumped.
PumpList == broadcast_list[event.event_type]

\* C4: the pump goes by the length the list had at entry: an object appended
\* to the list during the pump (at an index >= that length) is not dispatched
\* to in that pump, and is dispatched to in the next pump of the same event
\* (when it is of on_type and that pump runs to its end).
C4_LengthSnapshot ==
    PumpRunning =>
        /\ el_length <= Len(PumpList)
        /\ \A k \in (el_length + 1)..Len(PumpList) : ~InSeq(dispatched, PumpList[k])
        /\ late[1] = event.event_type => ~InSeq(dispatched, late[2])
        /\ (PumpComplete /\ due # NoObject /\ is_of_type(due, on_type))
               => InSeq(dispatched, due)

\* A pump is complete that has dispatched to an object which was appended to
\* the list during the previous pump of the same event.
C4_Witness ==
    /\ PumpComplete
    /\ due # NoObject
    /\ InSeq(dispatched, due)

\* C5: within one pump, the objects are dispatched to in the order of their
\* first registration under the event's name.
C5_RegistrationOrder ==
    PumpRunning =>
        /\ \A k \in 1..Len(dispatched) : InSeq(reg_order[event.event_type], dispatched[k])
        /\ \A j, k \in 1..Len(dispatched) :
               j < k => PosIn(reg_order[event.event_type], dispatched[j])
                            < PosIn(reg_order[event.event_type], dispatched[k])

\* A pump has dispatched to two objects.
C5_Witness ==
    /\ PumpRunning
    /\ Len(dispatched) >= 2

\* How many elements of the list the loop has gone through.
Visited == IF pc = "loop" THEN i ELSE i + 1

OfOnType(o) == is_of_type(o, on_type)

\* C6: the pump dispatches to exactly the objects of the event's list, within
\* the length read at entry, that are of on_type, once each and in list order;
\* at its end these are all such objects among the first el_length.
C6_DispatchesExactlyMatching ==
    PumpRunning =>
        /\ Visited <= el_length
        /\ dispatched = SelectSeq(SubSeq(PumpList, 1, Visited), OfOnType)
        /\ \A k \in 1..Len(dispatched) :
               /\ InSeq(PumpList, dispatched[k])
               /\ is_of_type(dispatched[k], on_type)
        /\ \A j, k \in 1..Len(dispatched) : j # k => dispatched[j] # dispatched[k]

\* A pump is complete that dispatched to an object and passed over another
\* object of the list, which is not of on_type.
C6_Witness ==
    /\ PumpComplete
    /\ Len(dispatched) >= 1
    /\ \E k \in 1..el_length : ~is_of_type(PumpList[k], on_type)

HostDispatchResult ==
    (pc = "listener" /\ caller = "host" /\ pc' = "idle" /\ ret'.ok)
        => /\ ret'.op = "dispatch_event"
           /\ ret'.val = ~event_object.cancelled

PopAfterPush ==
    (hist.op = "push" /\ hist'.op = "pop")
        => /\ hist'.value = hist.value
           /\ stack' = hist.before
           /\ Len(stack') = Len(stack) - 1

\* C8: pop right after push(v) returns v and leaves the stack as it was before
\* the push, at every depth of the stack.
C8_PushPop == [][PopAfterPush]_vars

\* A pop has followed a push on a stack that held two values or more.
C8_Witness ==
    /\ hist.op = "pop"
    /\ hist.prev = "push"
    /\ Len(stack) >= 2

\* C9: pop on an empty stack returns Undefined and leaves the stack empty; every
\* pop returns a value, and pop can always be called.
C9_UnderflowUndefined ==
    /\ (hist.op = "pop" /\ hist.before = <<>>) => (hist.value = "Undefined" /\ stack = <<>>)
    /\ hist.op = "pop" => hist.value \in Values
    /\ Len(stack) >= 0
    /\ ENABLED pop

\* pop was called on an empty stack.
C9_Witness ==
    /\ hist.op = "pop"
    /\ hist.before = <<>>

(* ----------------------------------------------------------------------- *)
(* Properties of load_abc.                                                 *)
(* ----------------------------------------------------------------------- *)

\* C10: load_abc gives the scripts to load_script in reverse order of
\* declaration, n-1, n-2, ..., 0, each once; all n when it returns Ok.
C10_ReverseLoadOrder ==
    /\ \A k \in 1..Len(loaded) : loaded[k] = abc_scripts - k
    /\ \A j, k \in 1..Len(loaded) : j # k => loaded[j] # loaded[k]
    /\ load_ret = "Ok" => Len(loaded) = abc_scripts

\* load_abc has returned Ok for a file of two scripts or more.
C10_Witness ==
    /\ load_ret = "Ok"
    /\ abc_scripts >= 2
    /\ Len(loaded) = abc_scripts

\* The positions of load_trace that hold an event of kind k.
TraceKind(k) == {p \in 1..Len(load_trace) : load_trace[p][1] = k}

\* The script indices whose initializer ran in the load_abc call, in run order.
RECURSIVE InitOrder(_)
InitOrder(t) ==
    IF t = <<>>
    THEN <<>>
    ELSE IF Head(t)[1] = "init"
         THEN <<Head(t)[2]>> \o InitOrder(Tail(t))
         ELSE InitOrder(Tail(t))

\* C11: a lazy load_abc call runs no script initializer, it only registers the
\* scripts; an eager call triggers the initializer of every script right after
\* that script is registered and before the next script is registered.
C11_LazyRegistersEagerInitializes ==
    /\ lazy_init => TraceKind("load") = 1..Len(load_trace)
    /\ ~lazy_init =>
          \A p \in TraceKind("load") :
              /\ p < Len(load_trace)
              /\ \/ load_trace[p + 1] = <<"init", load_trace[p][2]>>
                 \/ /\ load_trace[p + 1] = <<"globals_err", load_trace[p][2]>>
                    /\ p + 1 = Len(load_trace)
                    /\ load_ret = "Err"
    /\ (~lazy_init /\ load_ret = "Ok") =>
          \A idx \in 0..(abc_scripts - 1) :
              \E p \in TraceKind("init") : load_trace[p][2] = idx
    /\ load_pc = "loop" => Len(init_log) >= Cardinality(TraceKind("init"))

\* A lazy call has registered two scripts and an eager call has initialized two.
C11_Witness ==
    /\ load_ret = "Ok"
    /\ translation_units = 2
    /\ ~lazy_init
    /\ Cardinality(TraceKind("init")) >= 2
    /\ \E idx \in 0..(MaxScripts - 1) :
          /\ <<1, idx>> \in scripts
          /\ <<1, idx>> \notin initialized

\* The initializers of an eager load_abc call that returned Ok ran in declaration
\* order, script 0 first.
C12_DeclarationOrder ==
    (~lazy_init /\ load_ret = "Ok") =>
        \A k \in 1..Len(InitOrder(load_trace)) : InitOrder(load_trace)[k] = k - 1

\* C12: with eager initialization the script initializers of the ABC file run in
\* reverse declaration order, the last-declared script first and script 0 last.
C12_ReverseDeclarationOrder ==
    ~lazy_init =>
        /\ \A k \in 1..Len(InitOrder(load_trace)) :
               InitOrder(load_trace)[k] = abc_scripts - k
        /\ load_ret = "Ok" => Len(InitOrder(load_trace)) = abc_scripts

\* An eager load_abc call of a file of two scripts or more has returned Ok.
C12_Witness ==
    /\ ~lazy_init
    /\ load_ret = "Ok"
    /\ abc_scripts >= 2
    /\ Len(InitOrder(load_trace)) = abc_scripts

\* How many times the initializer of script has run.
RECURSIVE InitRuns(_, _)
InitRuns(log, script) ==
    IF log = <<>>
    THEN 0
    ELSE (IF Head(log) = script THEN 1 ELSE 0) + InitRuns(Tail(log), script)

\* C13: the initializer of a script runs at most once in the lifetime of the VM,
\* whatever asks for it again: an export resolution, Script::globals or a second
\* call of run_script_initializer.
C13_InitAtMostOnce ==
    \A script \in scripts : InitRuns(init_log, script) <= 1

\* C14: a load_abc call that fails leaves no script of its ABC file registered,
\* creates no translation unit and leaves the VM as it was before the call.
C14_FailedLoadRegistersNothing ==
    load_ret = "Err" => scripts = scripts_before

(* ----------------------------------------------------------------------- *)
(* Properties of load_player_globals.                                      *)
(* ----------------------------------------------------------------------- *)

\* The positions of boot_log that hold an entry of the given op and name.
LogAt(op, name) ==
    {p \in 1..Len(boot_log) : boot_log[p].op = op /\ boot_log[p].name = name}

\* One of the positions P is before position p.
Before(P, p) == \E q \in P : q < p

\* Where the class object of a primordial class was created.
CreatedAt(c) ==
    LogAt(CASE c = "object" -> "object_fill_proto"
            [] c = "function" -> "function_fill_proto"
            [] OTHER -> "class_create_class", "none")

\* The slots of the system tables that are not primordial.
OtherFields == Fields \ Primordials

\* C15: when the class initializer of any other built-in class runs, the class
\* objects of Object, Function and Class have been created, their class traits
\* are installed and their own class initializers have run.
C15_PrimordialsFirst ==
    \A p \in 1..Len(boot_log) :
        (boot_log[p].op = "cinit" /\ boot_log[p].name \notin Primordials) =>
            \A c \in Primordials :
                /\ Before(CreatedAt(c), p)
                /\ Before(LogAt("install_traits", c), p)
                /\ Before(LogAt("cinit", c), p)

\* The class initializer of the global class, the first other class, has run.
C15_Witness == LogAt("cinit", "global") # {}

\* t holds the three primordials of the running call, and one and the same bare
\* object in every other slot.
MinimalTable(t, kind) ==
    /\ \A c \in Primordials : t[c] = Obj(boot_calls, kind, c)
    /\ \E e \in {t[f] : f \in OtherFields} :
          /\ e.kind = "bare"
          /\ e.call = boot_calls
          /\ \A f \in OtherFields : t[f] = e

\* C16: a system table is published minimal: object, function and class hold the
\* primordials and every other slot holds the one sentinel of the table; both
\* tables are published after the three primordial class objects exist and
\* before any install_traits or class initializer call.
C16_MinimalTablesPublished ==
    /\ (boot_log # <<>> /\ boot_log[Len(boot_log)].op = "publish_prototypes") =>
          /\ system_prototypes = "Some"
          /\ MinimalTable(prototypes, "proto")
    /\ (boot_log # <<>> /\ boot_log[Len(boot_log)].op = "publish_classes") =>
          /\ system_classes = "Some"
          /\ MinimalTable(classes, "class")
          /\ MinimalTable(prototypes, "proto")
    /\ \A p \in 1..Len(boot_log) :
          /\ boot_log[p].op \in {"publish_prototypes", "publish_classes"} =>
                /\ \A c \in Primordials : Before(CreatedAt(c), p)
                /\ \A q \in 1..p : boot_log[q].op \notin {"install_traits", "cinit"}
          /\ boot_log[p].op \in {"install_traits", "cinit"} =>
                /\ Before(LogAt("publish_prototypes", "none"), p)
                /\ Before(LogAt("publish_classes", "none"), p)

\* Both tables have just been published.
C16_Witness ==
    /\ boot_log # <<>>
    /\ boot_log[Len(boot_log)].op = "publish_classes"
    /\ system_prototypes = "Some"

\* C17: class traits are installed on Object, Function and Class, in that order,
\* before any of their class initializers is called; the class initializers then
\* run in the order Object, Function, Class, each on its own class object.
C17_TraitsThenInitializers ==
    \A p \in 1..Len(boot_log) :
        (boot_log[p].op = "cinit" /\ boot_log[p].name \in Primordials) =>
            /\ \E a \in LogAt("install_traits", "object") :
               \E b \in LogAt("install_traits", "function") :
               \E c \in LogAt("install_traits", "class") :
                  a < b /\ b < c /\ c < p
            /\ boot_log[p].recv = Obj(boot_calls, "class", boot_log[p].name)
            /\ boot_log[p].name = "object" =>
                  ~Before(LogAt("cinit", "function") \cup LogAt("cinit", "class"), p)
            /\ boot_log[p].name = "function" =>
                  /\ Before(LogAt("cinit", "object"), p)
                  /\ ~Before(LogAt("cinit", "class"), p)
            /\ boot_log[p].name = "class" =>
                  /\ Before(LogAt("cinit", "object"), p)
                  /\ Before(LogAt("cinit", "function"), p)

\* The class initializer of Class has just run.
C17_Witness ==
    /\ boot_log # <<>>
    /\ boot_log[Len(boot_log)] = Ev("cinit", "class", Obj(boot_calls, "class", "class"))

\* C18: from gs.set_proto on, and so when load_player_globals has returned Ok, the
\* proto of the player globals scope object is the object in prototypes().global,
\* and that is the realized global prototype and not the sentinel.
C18_GlobalProtoPatched ==
    /\ LogAt("set_proto", "none") # {} =>
          /\ gs_proto = prototypes["global"]
          /\ gs_proto = Obj(boot_calls, "proto", "global")
    /\ (boot_pc = 0 /\ boot_ret = "Ok") => LogAt("set_proto", "none") # {}

\* load_player_globals has returned Ok and gs has a proto.
C18_Witness ==
    /\ boot_pc = 0
    /\ boot_ret = "Ok"
    /\ gs_proto.kind = "proto"

\* C19: a slot that is not primordial holds the sentinel of its table until its
\* avm2_system_class step, and the class object and prototype of its class from
\* then on; when load_player_globals has returned Ok none of the 28 slots of
\* either table holds the sentinel.
C19_SlotsReplaced ==
    /\ \A f \in OtherFields :
          /\ LogAt("export", f) # {} =>
                /\ classes[f] = Obj(boot_calls, "class", f)
                /\ prototypes[f] = Obj(boot_calls, "proto", f)
          /\ (LogAt("publish_classes", "none") # {} /\ LogAt("export", f) = {}) =>
                /\ classes[f] = Obj(boot_calls, "bare", "classes")
                /\ prototypes[f] = Obj(boot_calls, "bare", "prototypes")
    /\ (boot_pc = 0 /\ boot_ret = "Ok") =>
          \A f \in OtherFields : classes[f].kind = "class" /\ prototypes[f].kind = "proto"
    /\ Cardinality(OtherFields) = 28

\* load_player_globals has returned Ok and the last system class is in its slot.
C19_Witness ==
    /\ boot_pc = 0
    /\ boot_ret = "Ok"
    /\ classes["textformat"] = Obj(boot_calls, "class", "textformat")

\* A second load_player_globals call on a bootstrapped VM that meets no error
\* leaves the system tables as they were.
C20_Idempotent ==
    (boot_calls >= 2 /\ prev_ret = "Ok" /\ boot_pc = 0 /\ boot_ret = "Ok") =>
        /\ prototypes = prev_prototypes
        /\ classes = prev_classes

\* C20: load_player_globals is not idempotent: a second call on a bootstrapped VM
\* runs the bootstrap again, and from its publication on every slot of both
\* tables holds an object of that call, not the object it held before the call.
C20_SecondCallRebuilds ==
    (boot_calls >= 2 /\ prev_ret = "Ok" /\ LogAt("publish_classes", "none") # {}) =>
        \A f \in Fields :
            /\ prototypes[f].call = boot_calls
            /\ classes[f].call = boot_calls
            /\ prototypes[f] # prev_prototypes[f]
            /\ classes[f] # prev_classes[f]

\* A second call on a bootstrapped VM has returned Ok.
C20_Witness ==
    /\ boot_calls >= 2
    /\ prev_ret = "Ok"
    /\ boot_pc = 0
    /\ boot_ret = "Ok"

\* C21: a class() call whose declared super class name is not resolved fails
\* and builds no class object.
C21_MissingSuperFails ==
    last_class.resolution = "missing" => ~last_class.built

\* C22: an error in a statement of load_player_globals ends the call: it is the
\* last thing the call did, and the call has returned Err.
C22_ErrorStopsBootstrap ==
    \A p \in 1..Len(boot_log) :
        boot_log[p].op = "error" =>
            /\ p = Len(boot_log)
            /\ boot_pc = 0
            /\ boot_ret = "Err"

(* ----------------------------------------------------------------------- *)
(* Properties of trace.                                                    *)
(* ----------------------------------------------------------------------- *)

\* The strings of the values of a, joined by single spaces.
RECURSIVE Joined(_)
Joined(a) ==
    IF Len(a) = 0
    THEN ""
    ELSE IF Len(a) = 1
         THEN coerce_to_string(a[1]).str
         ELSE Joined(SubSeq(a, 1, Len(a) - 1)) \o " " \o coerce_to_string(a[Len(a)]).str

TraceCall ==
    trace_calls' = trace_calls + 1 =>
        IF \A k \in 1..Len(trace_args') : coerce_to_string(trace_args'[k]).ok
        THEN /\ trace_sink' = Append(trace_sink, Joined(trace_args'))
             /\ trace_ret' = "Undefined"
        ELSE /\ trace_sink' = trace_sink
             /\ trace_ret' = "Err"

\* C23: a call of trace sends one message to the trace sink, the strings of its
\* arguments in argument order joined by single spaces, the empty string for no
\* argument, and returns Undefined; when a coercion fails nothing is sent.
C23_TraceOneMessage == [][TraceCall]_vars

\* trace was called with no argument, and then with two arguments.
C23_Witness ==
    /\ trace_calls = 2
    /\ trace_sink = <<"", "true null">>
    /\ trace_ret = "Undefined"

(* ----------------------------------------------------------------------- *)
(* Properties of pop_args.                                                 *)
(* ----------------------------------------------------------------------- *)

\* The smaller of two numbers.
Min(a, b) == IF a < b THEN a ELSE b

\* C26: pop_args(n) takes min(n, stack length) values off the stack and returns
\* n values in push order, the top of the stack last; the arguments the stack
\* could not give are Undefined and come first, and the stack is then empty.
C26_PopArgs ==
    hist.op = "pop_args" =>
        LET before == hist.before
            taken == Min(arg_count, Len(before))
        IN  /\ Len(popped_args) = arg_count
            /\ stack = SubSeq(before, 1, Len(before) - taken)
            /\ \A k \in 1..arg_count :
                  popped_args[k] = IF k <= arg_count - taken
                                   THEN "Undefined"
                                   ELSE before[Len(before) - arg_count + k]
            /\ Len(before) < arg_count => stack = <<>>

\* pop_args(2) was called on a stack of one value, and that value is defined.
C26_Witness ==
    /\ hist.op = "pop_args"
    /\ arg_count = 2
    /\ Len(hist.before) = 1
    /\ popped_args = <<"Undefined", "True">>

(* ----------------------------------------------------------------------- *)
(* Properties of the system tables and of errors in the pump.              *)
(* ----------------------------------------------------------------------- *)

\* No dispatch goes on or has completed while the system tables are absent, a
\* step of a VM without tables does not reach a listener, and tables that are
\* present stay present.
TablesStep ==
    /\ system_classes = "None" => pc' # "listener"
    /\ (system_classes = "None" /\ pc = "loop" /\ i < el_length
           /\ bucket_get(PumpList, i) # NoObject
           /\ is_of_type(bucket_get(PumpList, i), on_type))
          => (pc' = "panic" \/ (pc' = "idle" /\ ~ret'.ok))
    /\ system_classes = "Some" => system_classes' = "Some"
    /\ system_prototypes = "Some" => system_prototypes' = "Some"

\* C24: the system tables are absent after Avm2::new and until load_player_globals
\* publishes them, and are never absent again; while they are absent
\* dispatch_event, and broadcast_event at an object of on_type in its list, panic
\* and do not complete.
C24_NoDispatchBeforeBootstrap ==
    /\ system_classes = "None" /\ system_prototypes = "None"
    /\ [][TablesStep]_vars
    /\ [](system_classes = "None" =>
             /\ pc # "listener"
             /\ ret.op # "dispatch_event"
             /\ dispatched = <<>>)
    /\ [](pc = "panic" => system_classes = "None")

\* A pump has panicked at an object of on_type on a VM without system tables.
C24_Witness ==
    /\ pc = "panic"
    /\ on_type # "none"
    /\ system_classes = "None"
    /\ Len(PumpList) >= 1

AppendOnly ==
    \A e \in DOMAIN broadcast_list :
        /\ e \in DOMAIN broadcast_list'
        /\ Len(broadcast_list'[e]) >= Len(broadcast_list[e])
        /\ \A k \in 1..Len(broadcast_list[e]) : broadcast_list'[e][k] = broadcast_list[e][k]

\* C25: no step removes an object from a broadcast list or moves it: every list
\* only grows at its end, so a registered object keeps its index for good.
C25_AppendOnly == [][AppendOnly]_vars

\* Two objects are in a list that has been pumped to its end.
C25_Witness ==
    /\ ret = BroadcastRet("enterFrame", TRUE)
    /\ "enterFrame" \in DOMAIN broadcast_list
    /\ Len(broadcast_list["enterFrame"]) >= 2

PumpError ==
    (PumpRunning /\ ret'.op = "broadcast_event" /\ ~ret'.ok) =>
        /\ pc' = "idle"
        /\ target' = NoObject
        /\ dispatched' = <<>>
        /\ broadcast_list' = broadcast_list

\* C27: when is_of_type or the dispatch to the i-th object fails, broadcast_event
\* returns the error at once: the pump is over, no later object of the list is
\* dispatched to, and the failure leaves the broadcast list as it was.
C27_PumpStopsOnError ==
    /\ [][PumpError]_vars
    /\ []((ret.op = "broadcast_event" /\ ~ret.ok) => ~PumpRunning)

\* A pump of a list of two objects or more has returned an error.
C27_Witness ==
    /\ pc = "idle"
    /\ ret.op = "broadcast_event"
    /\ ~ret.ok
    /\ Len(broadcast_list[ret.name]) >= 2

FreshEventObject ==
    /\ (pc = "loop" /\ pc' = "listener") =>
          /\ event_object' = NewEvent(event.event_type)
          /\ ~event_object'.cancelled
    /\ (PumpRunning /\ PumpRunning') => event' = event

\* C28: every dispatch of a pump is given a new EventObject around a clone of the
\* pump's event: what a listener does to its event, a cancellation, is not seen
\* by the listeners the pump dispatches to later.
C28_FreshEventPerDispatch ==
    /\ [][FreshEventObject]_vars
    /\ [](PumpRunning => ~event.cancelled)

\* A listener of the pump has cancelled its event, and a later listener of the
\* same pump runs with an event that is not cancelled.
C28_Witness ==
    /\ pc = "listener"
    /\ caller = "broadcast"
    /\ pump_cancelled
    /\ ~event_object.cancelled
    /\ Len(dispatched) >= 2

====
